---- MODULE Spec2Model ----
(***************************************************************************)
(* Model of distributed/deploy/old_ssh.py: the SSH runner thread           *)
(* (async_ssh), the two launchers (start_scheduler, start_worker) and the  *)
(* cluster supervisor (SSHCluster).                                        *)
(*                                                                         *)
(* A Python string is modelled as the sequence of the pieces it is         *)
(* concatenated from; a Python value of a keyword argument is modelled by  *)
(* a token: "None" for None, "0" for the integer 0, "" for the empty       *)
(* string, and any other token for a truthy value.                         *)
(***************************************************************************)
EXTENDS Integers, Sequences, FiniteSets, TLC

\* ------------------------------------------------------------------ bounds
\* Largest number of workers of a cluster (initial list plus add_worker)
\* under Spec and SpecMonitor.
MaxWorkers == 1
\* Largest length of the initial worker address list under SpecCtor, where
\* add_worker may add one worker more.
MaxInitWorkers == 2
\* Number of lines all remote processes together may emit.
MaxLines == 3
\* Largest number of workers of a cluster under SpecOrder.
MaxOrderWorkers == 2
\* Largest number of entries of an endlessly writing command that wait on its
\* output queue at one time.
MaxQueue == 3
\* Number of calls of shutdown() (direct or by leaving the scope) under SpecScope.
MaxShutdowns == 2

\* ------------------------------------------------------- program constants
MaxRetries == 3
InterruptWindow == 5

\* bcolors
BOLD == "\\033[1m"
FAIL == "\\033[91m"
ENDC == "\\033[0m"

None == "None"
\* The values Python's truth test takes for false among the modelled tokens.
Falsy == {"None", "0", ""}
Truthy(v) == v \notin Falsy

WorkerAddrs == {"10.0.0.2", "10.0.0.3"}
\* The exit statuses the remote commands end with: success, and 130, the
\* status of a shell command ended by Ctrl-C.
ExitStatuses == {0, 130}

\* str(n) for an integer n, as the sequence of its characters.
DecimalDigits == <<"0", "1", "2", "3", "4", "5", "6", "7", "8", "9">>

RECURSIVE Digits(_)
Digits(n) ==
    IF n < 10 THEN <<DecimalDigits[n + 1]>>
    ELSE Digits(n \div 10) \o <<DecimalDigits[(n % 10) + 1]>>

ToStr(n) == IF n < 0 THEN <<"-">> \o Digits(0 - n) ELSE Digits(n)

\* ---------------------------------------------------------------- strings
\* The characters c with c.isspace(), which str.rstrip() removes; those TLA+
\* has no escape for are written as their Python escapes.
Whitespace ==
    {"\t", "\n", "\\x0b", "\f", "\r", "\\x1c", "\\x1d", "\\x1e", "\\x1f", " ",
     "\\x85", "\\xa0", "\\u1680", "\\u2000", "\\u2001", "\\u2002", "\\u2003",
     "\\u2004", "\\u2005", "\\u2006", "\\u2007", "\\u2008", "\\u2009", "\\u200a",
     "\\u2028", "\\u2029", "\\u202f", "\\u205f", "\\u3000"}

\* str.rstrip(): the string without its trailing whitespace.
RECURSIVE rstrip(_)
rstrip(s) ==
    IF s = <<>> THEN <<>>
    ELSE IF s[Len(s)] \in Whitespace THEN rstrip(SubSeq(s, 1, Len(s) - 1))
    ELSE s

\* "[ {label} ] : " of the three formats of async_ssh.
Prefix(label) == <<"[ ">> \o label \o <<" ] : ">>

\* A readline that returns the newest line the stream holds.
stdout_readline_newest(out) == out[Len(out)]

\* stdout.readline() on a stream that holds lines: the oldest of them.
stdout_readline(out) == out[1]

\* A readline that returns the newest line the stream holds.
stderr_readline_newest(err) == err[Len(err)]

\* stderr.readline() on a stream that holds lines: the oldest of them.
stderr_readline(err) == err[1]

\* What is left on a stream when `line` was read from it.
Without(stream, line) ==
    LET k == CHOOSE i \in 1..Len(stream) : stream[i] = line
    IN SubSeq(stream, 1, k - 1) \o SubSeq(stream, k + 1, Len(stream))

\* The entry read_from_stdout puts for a line it read.
stdout_entry(label, line) == Prefix(label) \o rstrip(line)

\* The entry read_from_stderr puts for a line it read.
stderr_entry(label, line) == Prefix(label) \o <<FAIL>> \o rstrip(line) \o <<ENDC>>

\* A termination notice that leaves the exit status out.
ExitNoticeNoStatus(label, status) ==
    Prefix(label) \o <<FAIL, "remote process exited with exit status ", ENDC>>

\* The termination notice communicate() puts once the exit status is ready.
ExitNotice(label, status) ==
    Prefix(label) \o <<FAIL, "remote process exited with exit status ">> \o ToStr(status) \o <<ENDC>>

\* ------------------------------------------------------- command building
\* The value of the logdir argument: None, or a string, written as the
\* sequence of its pieces with every path separator a piece of its own.
NoneStr == [is_none |-> TRUE, s |-> <<>>]
Str(s) == [is_none |-> FALSE, s |-> s]

\* The values of logdir the model calls the program with: None, "", "/var/log"
\* and "/tmp/".
LogDirs ==
    {NoneStr, Str(<<>>), Str(<<"/", "var", "/", "log">>), Str(<<"/", "tmp", "/">>)}

\* os.path.join(a, b) for a relative b.
PathJoin(a, b) ==
    IF a = <<>> THEN b
    ELSE IF a[Len(a)] = "/" THEN a \o b
    ELSE a \o <<"/">> \o b

\* start_scheduler's command string.
SchedulerCmd(logdir, addr, port, remote_python) ==
    LET cmd == <<IF Truthy(remote_python) THEN remote_python ELSE "sys.executable",
                 " -m distributed.cli.dask_scheduler --port ", port>>
    IN IF ~logdir.is_none
       THEN <<"mkdir -p ">> \o logdir.s \o <<" && ">> \o cmd
            \o <<"&> ">> \o logdir.s \o <<"/dask_scheduler_", addr, ":", port, ".log">>
       ELSE cmd

SchedulerLabel(addr, port) == <<BOLD, "scheduler ", addr, ":", port, ENDC>>

\* start_worker's command string; p is the record of its parameters.
WorkerCmd(p) ==
    LET base == <<IF Truthy(p.remote_python) THEN p.remote_python ELSE "sys.executable",
                  " -m ", p.remote_dask_worker, " ",
                  p.scheduler_addr, ":", p.scheduler_port,
                  " --nthreads ", p.nthreads>>
        nw   == IF p.n_workers # "1" THEN <<" --nworkers ", p.n_workers>> ELSE <<>>
        host == IF ~p.nohost THEN <<" --host ", p.worker_addr>> ELSE <<>>
        mem  == IF Truthy(p.memory_limit) THEN <<" --memory-limit ", p.memory_limit>> ELSE <<>>
        wp   == IF Truthy(p.worker_port) THEN <<" --worker-port ", p.worker_port>> ELSE <<>>
        np   == IF Truthy(p.nanny_port) THEN <<" --nanny-port ", p.nanny_port>> ELSE <<>>
        ld   == IF p.local_directory # None
                THEN <<" --local-directory ", p.local_directory>> ELSE <<>>
        cmd  == base \o nw \o host \o mem \o wp \o np \o ld
    IN IF ~p.logdir.is_none
       THEN <<"mkdir -p ">> \o p.logdir.s \o <<" && ">> \o cmd
            \o <<"&> ">> \o p.logdir.s \o <<"/dask_scheduler_", p.worker_addr, ".log">>
       ELSE cmd

WorkerLabel(addr) == <<"worker ", addr>>

\* ------------------------------------------------------------------ state
VARIABLES
    args,       \* the arguments SSHCluster(...) is called with
    ctor,       \* position of SSHCluster.__init__: "new", "workers", "ready",
                \* or the exception it raised: "TypeError", "ValueError"
    self,       \* attributes of the cluster object set by __init__
    scheduler,  \* self.scheduler: a handle, or NoHandle before it is started
    workers,    \* self.workers: the sequence of worker handles
    cmd_dict,   \* cmd_dict[t]: the command dictionary thread t was started with
    thr,        \* thr[t]: local state of the async_ssh thread t
    rem,        \* rem[t]: the remote command of thread t and its two streams
    inq,        \* inq[t]: the input_queue of thread t's command dictionary
    outq,       \* outq[t]: the output_queue of thread t's command dictionary
    puts,       \* puts[t]: every entry ever put on outq[t], in order (history; of
                \* the lines of an endlessly writing command the first MaxHistory)
    process,    \* "alive", or "exit1" after os._exit(1)
    sd,         \* the call of shutdown() in progress, and how many were made
    mon,        \* the call of monitor_remote_processes()
    scope,      \* the with-statement around the cluster
    printed,    \* what monitor_remote_processes has printed, in order (history of
                \* the first MaxHistory entries)
    lines,      \* number of lines the remote processes have emitted so far, those
                \* of an endlessly writing command apart
    call,       \* the arguments of a direct call of start_scheduler or start_worker
    launched    \* the handle that call returned, or NoHandle

vars == <<args, call, launched, ctor, self, scheduler, workers, cmd_dict, thr, rem, inq, outq,
          puts, process, sd, mon, scope, printed, lines>>

NoHandle == [thread |-> 0]

\* The histories are finite records of what an endless run has done: an entry
\* is recorded while the history has fewer than MaxHistory entries, which is
\* more than the commands that stop writing and the exit notices fill.
MaxHistory == MaxLines + 2 * (MaxWorkers + 1)
Recorded(history, entry) ==
    IF Len(history) < MaxHistory THEN Append(history, entry) ELSE history
Threads == 1..Len(thr)

\* The fields of thr[t] that are history, kept for the properties: attempts
\* (calls of ssh.connect), execs (calls of exec_command), interrupts (Ctrl-C
\* characters sent), notices (termination notices put), chan_closed and
\* ssh_closed (calls of close), connected, communicated (communicate() was
\* called), blind_interrupt (a Ctrl-C was sent before any communicate()) and
\* early_token (the input queue held a token when ssh.connect returned; kept
\* until the runner leaves its idle loop).

\* Thread.is_alive() is false: async_ssh returned or raised.
Terminated(t) == thr[t].pc \in {"done", "raised"}

\* The launch parameters the model fixes for a cluster.
ClusterParams ==
    [scheduler_addr |-> "10.0.0.1", scheduler_port |-> "8786", nthreads |-> "0",
     nohost |-> FALSE, memory_limit |-> None, worker_port |-> None,
     nanny_port |-> None, remote_python |-> None,
     remote_dask_worker |-> "distributed.cli.dask_worker",
     local_directory |-> None]

RECURSIVE SeqsUpTo(_, _)
\* The sequences over S of length at most n.
SeqsUpTo(S, n) ==
    IF n = 0 THEN {<<>>}
    ELSE LET shorter == SeqsUpTo(S, n - 1)
         IN shorter \cup {Append(q, x) : q \in shorter, x \in S}

\* The arguments of SSHCluster(...) the constructor is checked with: every
\* combination of the worker counts and every log directory with at most one
\* worker address, and every list of worker addresses with the defaults.
CtorArgs ==
    [nprocs : {None, "4"}, n_workers : {None, "1"}, unexpected : BOOLEAN,
     logdir : {NoneStr}, worker_addrs : SeqsUpTo(WorkerAddrs, 1)]
    \cup [nprocs : {None}, n_workers : {None}, unexpected : {FALSE},
          logdir : LogDirs, worker_addrs : SeqsUpTo(WorkerAddrs, 1)]
    \cup [nprocs : {None}, n_workers : {None}, unexpected : {FALSE},
          logdir : {NoneStr}, worker_addrs : SeqsUpTo(WorkerAddrs, MaxInitWorkers)]

InitThread ==
    [pc |-> "connect", retries |-> 0, attempts |-> 0, execs |-> 0, elapsed |-> 0,
     interrupts |-> 0, notices |-> 0, chan_closed |-> 0, ssh_closed |-> 0,
     connected |-> FALSE, communicated |-> FALSE, blind_interrupt |-> FALSE,
     early_token |-> FALSE]

InitRemote == [st |-> "none", status |-> 0, out |-> <<>>, err |-> <<>>, emitted |-> <<>>]

InitCommon ==
    /\ launched = NoHandle
    /\ ctor = "new"
    /\ self = [n_workers |-> None, logdir |-> NoneStr]
    /\ scheduler = NoHandle
    /\ workers = <<>>
    /\ cmd_dict = <<>>
    /\ thr = <<>>
    /\ rem = <<>>
    /\ inq = <<>>
    /\ outq = <<>>
    /\ puts = <<>>
    /\ process = "alive"
    /\ sd = [pc |-> "idle", procs |-> <<>>, i |-> 0, calls |-> 0, by |-> "none",
             returned |-> 0, racing_add |-> FALSE]
    /\ mon = [pc |-> "idle", procs |-> <<>>, i |-> 0, got |-> <<>>]
    /\ scope = [pc |-> "out", value |-> "none", how |-> "none"]
    /\ printed = <<>>
    /\ lines = 0

\* ---------------------------------------------------------------- launchers
\* Thread(target=async_ssh, args=[cmd_dict]).start() with fresh queues: the new
\* thread is the next index of every per-thread sequence.
StartThread(d) ==
    /\ cmd_dict' = Append(cmd_dict, d)
    /\ thr' = Append(thr, InitThread)
    /\ rem' = Append(rem, InitRemote)
    /\ inq' = Append(inq, <<>>)
    /\ outq' = Append(outq, <<>>)
    /\ puts' = Append(puts, <<>>)

\* The dictionary start_scheduler builds, and the handle it returns.
SchedulerDict(logdir, addr, port, remote_python) ==
    [cmd |-> SchedulerCmd(logdir, addr, port, remote_python),
     label |-> SchedulerLabel(addr, port), address |-> addr]

\* The dictionary start_worker builds.
WorkerDict(p) ==
    [cmd |-> WorkerCmd(p), label |-> WorkerLabel(p.worker_addr), address |-> p.worker_addr]

\* A handle that shares the input queue of the first thread started.
HandleSharedInput(d, t) ==
    [cmd |-> d.cmd, label |-> d.label, address |-> d.address,
     input_queue |-> 1, output_queue |-> t, thread |-> t]

\* merge(cmd_dict, {"thread": thread}): the handle of thread t.
Handle(d, t) ==
    [cmd |-> d.cmd, label |-> d.label, address |-> d.address,
     input_queue |-> t, output_queue |-> t, thread |-> t]

\* os.path.join(logdir, "dask-ssh_" + <timestamp>) when a log directory is
\* given; the timestamp is written TS.
JoinLogdir(logdir) ==
    IF logdir.is_none THEN logdir ELSE Str(PathJoin(logdir.s, <<"dask-ssh_", "TS">>))

\* The parameters add_worker passes to start_worker for `address`.
WorkerParams(address) ==
    [scheduler_addr |-> ClusterParams.scheduler_addr,
     scheduler_port |-> ClusterParams.scheduler_port,
     worker_addr |-> address, nthreads |-> ClusterParams.nthreads,
     n_workers |-> self.n_workers, nohost |-> ClusterParams.nohost,
     memory_limit |-> ClusterParams.memory_limit,
     worker_port |-> ClusterParams.worker_port,
     nanny_port |-> ClusterParams.nanny_port,
     remote_python |-> ClusterParams.remote_python,
     remote_dask_worker |-> ClusterParams.remote_dask_worker,
     local_directory |-> ClusterParams.local_directory, logdir |-> self.logdir]

\* start_scheduler(...): the runner thread is started and its handle returned.
start_scheduler(logdir, addr, port, remote_python) ==
    LET d == SchedulerDict(logdir, addr, port, remote_python)
    IN /\ launched' = Handle(d, Len(thr) + 1)
       /\ StartThread(d)

\* start_worker(...) with the parameters p: the same for a worker.
start_worker(p) ==
    /\ launched' = Handle(WorkerDict(p), Len(thr) + 1)
    /\ StartThread(WorkerDict(p))

\* SSHCluster.add_worker up to the return of start_worker: the thread runs,
\* its handle is not yet in self.workers.
add_worker(address) == start_worker(WorkerParams(address))

\* An add_worker that inserts the new handle at the front of self.workers.
prepend_worker ==
    /\ workers' = <<launched>> \o workers
    /\ launched' = NoHandle

\* self.workers.append(...) of the handle start_worker returned.
append_worker ==
    /\ workers' = Append(workers, launched)
    /\ launched' = NoHandle

\* ------------------------------------------------------------- constructor
\* An __init__ without the check for both nprocs and n_workers: nprocs wins.
CtorBeginNoCheck ==
    /\ ctor = "new"
    /\ process = "alive"
    /\ IF args.unexpected
       THEN /\ ctor' = "TypeError"
            /\ UNCHANGED <<launched, self, cmd_dict, thr, rem, inq, outq, puts>>
       ELSE LET n == IF args.nprocs # None THEN args.nprocs
                     ELSE IF args.n_workers = None THEN "1" ELSE args.n_workers
                ld == JoinLogdir(args.logdir)
            IN /\ self' = [n_workers |-> n, logdir |-> ld]
               /\ start_scheduler(ld, ClusterParams.scheduler_addr,
                                  ClusterParams.scheduler_port,
                                  ClusterParams.remote_python)
               /\ ctor' = "scheduler"
    /\ UNCHANGED <<args, call, scheduler, workers, process, sd, mon, scope, printed, lines>>

\* SSHCluster.__init__ up to the return of start_scheduler: the scheduler's
\* thread runs, self.scheduler is not yet assigned.
CtorBegin ==
    /\ ctor = "new"
    /\ process = "alive"
    /\ IF args.unexpected
       THEN /\ ctor' = "TypeError"
            /\ UNCHANGED <<launched, self, cmd_dict, thr, rem, inq, outq, puts>>
       ELSE IF args.nprocs # None /\ args.n_workers # None
       THEN /\ ctor' = "ValueError"
            /\ UNCHANGED <<launched, self, cmd_dict, thr, rem, inq, outq, puts>>
       ELSE LET n == IF args.nprocs # None THEN args.nprocs
                     ELSE IF args.n_workers = None THEN "1" ELSE args.n_workers
                ld == JoinLogdir(args.logdir)
            IN /\ self' = [n_workers |-> n, logdir |-> ld]
               /\ start_scheduler(ld, ClusterParams.scheduler_addr,
                                  ClusterParams.scheduler_port,
                                  ClusterParams.remote_python)
               /\ ctor' = "scheduler"
    /\ UNCHANGED <<args, call, scheduler, workers, process, sd, mon, scope, printed, lines>>

\* `self.scheduler = start_scheduler(...)` is assigned and `self.workers = []`.
CtorScheduler ==
    /\ ctor = "scheduler"
    /\ process = "alive"
    /\ scheduler' = launched
    /\ launched' = NoHandle
    /\ workers' = <<>>
    /\ ctor' = IF args.worker_addrs = <<>> THEN "ready" ELSE "workers"
    /\ UNCHANGED <<args, call, self, cmd_dict, thr, rem, inq, outq, puts, process, sd, mon,
                   scope, printed, lines>>

\* A turn of `for i, addr in enumerate(worker_addrs): self.add_worker(addr)`,
\* up to the return of start_worker.
CtorWorker ==
    /\ ctor = "workers"
    /\ process = "alive"
    /\ launched = NoHandle
    /\ add_worker(args.worker_addrs[Len(workers) + 1])
    /\ UNCHANGED <<args, call, ctor, self, scheduler, workers, process, sd, mon, scope,
                   printed, lines>>

\* The handle of that turn is appended; after the last turn __init__ returns.
CtorAppend ==
    /\ ctor = "workers"
    /\ process = "alive"
    /\ launched # NoHandle
    /\ append_worker
    /\ ctor' = IF Len(workers) + 1 = Len(args.worker_addrs) THEN "ready" ELSE "workers"
    /\ UNCHANGED <<args, call, self, scheduler, cmd_dict, thr, rem, inq, outq, puts, process,
                   sd, mon, scope, printed, lines>>

\* ------------------------------------------------------------------ runner
\* A retry loop that gives up one failure too late (> instead of >=).
ConnectOffByOne(t, outcome) ==
    /\ process = "alive"
    /\ thr[t].pc = "connect"
    /\   CASE outcome = "ok" ->
                /\ thr' = [thr EXCEPT ![t].attempts = @ + 1, ![t].connected = TRUE,
                                      ![t].early_token = inq[t] # <<>>,
                                      ![t].pc = "exec"]
                /\ UNCHANGED process
           [] outcome = "SSHException" ->
                IF thr[t].retries + 1 > MaxRetries
                THEN /\ thr' = [thr EXCEPT ![t].attempts = @ + 1, ![t].retries = @ + 1]
                     /\ process' = "exit1"
                ELSE /\ thr' = [thr EXCEPT ![t].attempts = @ + 1, ![t].retries = @ + 1]
                     /\ UNCHANGED process
           [] outcome = "other" ->
                /\ thr' = [thr EXCEPT ![t].attempts = @ + 1, ![t].pc = "raised"]
                /\ UNCHANGED process
    /\ UNCHANGED <<args, call, launched, ctor, self, scheduler, workers, cmd_dict, rem, inq, outq,
                   puts, sd, mon, scope, printed, lines>>

\* A connection loop that treats every failure as fatal for the process.
ConnectOtherFatal(t, outcome) ==
    /\ process = "alive"
    /\ thr[t].pc = "connect"
    /\   CASE outcome = "ok" ->
                /\ thr' = [thr EXCEPT ![t].attempts = @ + 1, ![t].connected = TRUE,
                                      ![t].early_token = inq[t] # <<>>,
                                      ![t].pc = "exec"]
                /\ UNCHANGED process
           [] outcome = "SSHException" ->
                IF thr[t].retries + 1 >= MaxRetries
                THEN /\ thr' = [thr EXCEPT ![t].attempts = @ + 1, ![t].retries = @ + 1]
                     /\ process' = "exit1"
                ELSE /\ thr' = [thr EXCEPT ![t].attempts = @ + 1, ![t].retries = @ + 1]
                     /\ UNCHANGED process
           [] outcome = "other" ->
                /\ thr' = [thr EXCEPT ![t].attempts = @ + 1, ![t].pc = "raised"]
                /\ process' = "exit1"
    /\ UNCHANGED <<args, call, launched, ctor, self, scheduler, workers, cmd_dict, rem, inq, outq,
                   puts, sd, mon, scope, printed, lines>>

\* One ssh.connect attempt of thread t and the handling of its outcome.
Connect(t, outcome) ==
    /\ process = "alive"
    /\ thr[t].pc = "connect"
    /\   CASE outcome = "ok" ->
                /\ thr' = [thr EXCEPT ![t].attempts = @ + 1, ![t].connected = TRUE,
                                      ![t].early_token = inq[t] # <<>>,
                                      ![t].pc = "exec"]
                /\ UNCHANGED process
           [] outcome = "SSHException" ->
                IF thr[t].retries + 1 >= MaxRetries
                THEN /\ thr' = [thr EXCEPT ![t].attempts = @ + 1, ![t].retries = @ + 1]
                     /\ process' = "exit1"
                ELSE /\ thr' = [thr EXCEPT ![t].attempts = @ + 1, ![t].retries = @ + 1]
                     /\ UNCHANGED process
           [] outcome = "other" ->
                /\ thr' = [thr EXCEPT ![t].attempts = @ + 1, ![t].pc = "raised"]
                /\ UNCHANGED process
    /\ UNCHANGED <<args, call, launched, ctor, self, scheduler, workers, cmd_dict, rem, inq, outq,
                   puts, sd, mon, scope, printed, lines>>

\* A runner that looks at its input queue before it starts the command and
\* goes straight to the close when a token is there.
ExecUnlessSignalled(t) ==
    /\ process = "alive"
    /\ thr[t].pc = "exec"
    /\ IF inq[t] # <<>>
       THEN /\ thr' = [thr EXCEPT ![t].early_token = FALSE, ![t].pc = "close_channel"]
            /\ UNCHANGED rem
       ELSE /\ thr' = [thr EXCEPT ![t].execs = @ + 1, ![t].pc = "idle"]
            /\ rem' = [rem EXCEPT ![t].st = "running"]
    /\ UNCHANGED <<args, call, launched, ctor, self, scheduler, workers, cmd_dict, inq, outq,
                   puts, process, sd, mon, scope, printed, lines>>

\* ssh.exec_command of the command: the remote command starts.
Exec(t) ==
    /\ process = "alive"
    /\ thr[t].pc = "exec"
    /\ thr' = [thr EXCEPT ![t].execs = @ + 1, ![t].pc = "idle"]
    /\ rem' = [rem EXCEPT ![t].st = "running"]
    /\ UNCHANGED <<args, call, launched, ctor, self, scheduler, workers, cmd_dict, inq, outq,
                   puts, process, sd, mon, scope, printed, lines>>

\* channel.exit_status_ready()
exit_status_ready(t) == rem[t].st = "exited"

\* The runner is in communicate(): in read_from_stdout, in read_from_stderr,
\* or at the test of the exit status.
InStdout(t) == thr[t].pc \in {"idle_out", "int_out"}
InStderr(t) == thr[t].pc \in {"idle_err", "int_err"}
AtExitCheck(t) == thr[t].pc \in {"idle_exit", "int_exit"}

\* The runner has started the command and not yet left the two loops.
InLoops(t) ==
    thr[t].pc \in {"idle", "idle_out", "idle_err", "idle_exit",
                   "interrupt", "int_out", "int_err", "int_exit"}

\* The test of `while cmd_dict["input_queue"].empty()` finds the queue empty:
\* the runner sleeps, sends the keep-alive and calls communicate().
IdleCycle(t) ==
    /\ process = "alive"
    /\ thr[t].pc = "idle"
    /\ inq[t] = <<>>
    /\ thr' = [thr EXCEPT ![t].communicated = TRUE, ![t].pc = "idle_out"]
    /\ UNCHANGED <<args, call, launched, ctor, self, scheduler, workers, cmd_dict, rem, inq, outq,
                   puts, process, sd, mon, scope, printed, lines>>

\* The test of the idle loop finds a message on the input queue.
IdleExit(t) ==
    /\ process = "alive"
    /\ thr[t].pc = "idle"
    /\ inq[t] # <<>>
    /\ thr' = [thr EXCEPT ![t].early_token = FALSE, ![t].pc = "interrupt"]
    /\ UNCHANGED <<args, call, launched, ctor, self, scheduler, workers, cmd_dict, rem, inq, outq,
                   puts, process, sd, mon, scope, printed, lines>>

\* The test of `while time() < start + 5.0` holds and channel.send(Ctrl-C):
\* it raises on a channel the remote end has closed, which it may have done
\* once the command exited; else the runner calls communicate().
IntCycle(t) ==
    /\ process = "alive"
    /\ thr[t].pc = "interrupt"
    /\ thr[t].elapsed < InterruptWindow
    /\ \/ /\ exit_status_ready(t)
          /\ thr' = [thr EXCEPT ![t].pc = "raised"]
       \/ /\ thr' = [thr EXCEPT
                 ![t].interrupts = @ + 1,
                 ![t].blind_interrupt = @ \/ ~thr[t].communicated,
                 ![t].communicated = TRUE,
                 ![t].pc = "int_out"]
    /\ UNCHANGED <<args, call, launched, ctor, self, scheduler, workers, cmd_dict, rem, inq, outq,
                   puts, process, sd, mon, scope, printed, lines>>

\* The line an endlessly writing command writes over and over, as `yes` does.
PourLine == <<"y", "\n">>

\* `line = stdout.readline()` returns a line of a remote command that writes
\* without a pause of the channel's timeout, and the entry for it is put;
\* `while len(line) > 0` goes on.  The queue has no limit in the code; the
\* model follows it up to MaxQueue waiting entries.
ReadLine(t) ==
    /\ process = "alive"
    /\ rem[t].st = "pouring"
    /\ InStdout(t)
    /\ Len(outq[t]) < MaxQueue
    /\ LET entry == stdout_entry(cmd_dict[t].label, PourLine)
       IN /\ rem' = [rem EXCEPT ![t].emitted =
                           Recorded(@, [stream |-> "out", line |-> PourLine,
                                        text |-> rstrip(PourLine)])]
          /\ outq' = [outq EXCEPT ![t] = Append(@, entry)]
          /\ puts' = [puts EXCEPT ![t] = Recorded(@, entry)]
    /\ UNCHANGED <<args, call, launched, ctor, self, scheduler, workers, cmd_dict, thr, inq,
                   process, sd, mon, scope, printed, lines>>

\* One stdout.readline() of read_from_stdout(): it returns a line the stream
\* holds and the entry for it is put, or, the stream holding none, it times
\* out or finds the end of the stream and read_from_stdout returns.
ReadStdout(t) ==
    /\ process = "alive"
    /\ InStdout(t)
    /\ IF rem[t].out # <<>>
       THEN LET line == stdout_readline(rem[t].out)
                entry == stdout_entry(cmd_dict[t].label, line)
            IN /\ outq' = [outq EXCEPT ![t] = Append(@, entry)]
               /\ puts' = [puts EXCEPT ![t] = Append(@, entry)]
               /\ rem' = [rem EXCEPT ![t].out = Without(@, line)]
               /\ UNCHANGED thr
       ELSE /\ rem[t].st # "pouring"
            /\ thr' = [thr EXCEPT
                   ![t].pc = IF thr[t].pc = "idle_out" THEN "idle_err" ELSE "int_err"]
            /\ UNCHANGED <<rem, outq, puts>>
    /\ UNCHANGED <<args, call, launched, ctor, self, scheduler, workers, cmd_dict, inq,
                   process, sd, mon, scope, printed, lines>>

\* One stderr.readline() of read_from_stderr(): the same for the error stream.
ReadStderr(t) ==
    /\ process = "alive"
    /\ InStderr(t)
    /\ IF rem[t].err # <<>>
       THEN LET line == stderr_readline(rem[t].err)
                entry == stderr_entry(cmd_dict[t].label, line)
            IN /\ outq' = [outq EXCEPT ![t] = Append(@, entry)]
               /\ puts' = [puts EXCEPT ![t] = Append(@, entry)]
               /\ rem' = [rem EXCEPT ![t].err = Without(@, line)]
               /\ UNCHANGED thr
       ELSE /\ thr' = [thr EXCEPT
                   ![t].pc = IF thr[t].pc = "idle_err" THEN "idle_exit" ELSE "int_exit"]
            /\ UNCHANGED <<rem, outq, puts>>
    /\ UNCHANGED <<args, call, launched, ctor, self, scheduler, workers, cmd_dict, inq,
                   process, sd, mon, scope, printed, lines>>

\* The end of communicate() and what its caller does with the result: if the
\* exit status is ready the notice is put and the loop is left (`break`); else
\* the idle loop goes back to its test and the Ctrl-C loop sleeps.  elapsed
\* counts the sleeps of the Ctrl-C loop, each of at least one time unit.
CheckExit(t) ==
    /\ process = "alive"
    /\ AtExitCheck(t)
    /\ IF exit_status_ready(t)
       THEN LET notice == ExitNotice(cmd_dict[t].label, rem[t].status)
            IN /\ outq' = [outq EXCEPT ![t] = Append(@, notice)]
               /\ puts' = [puts EXCEPT ![t] = Append(@, notice)]
               /\ thr' = [thr EXCEPT
                      ![t].notices = @ + 1,
                      ![t].pc = IF thr[t].pc = "idle_exit" THEN "interrupt"
                                ELSE "close_channel"]
       ELSE /\ thr' = [thr EXCEPT
                      ![t].elapsed = IF thr[t].pc = "int_exit" THEN @ + 1 ELSE @,
                      ![t].pc = IF thr[t].pc = "idle_exit" THEN "idle" ELSE "interrupt"]
            /\ UNCHANGED <<outq, puts>>
    /\ UNCHANGED <<args, call, launched, ctor, self, scheduler, workers, cmd_dict, rem, inq,
                   process, sd, mon, scope, printed, lines>>

\* The test `time() < start + 5.0` fails: the window has passed, at the latest
\* after InterruptWindow sleeps, earlier when a turn took longer than its sleep
\* or the thread was kept waiting, be it before the first test.
IntTimeout(t) ==
    /\ process = "alive"
    /\ thr[t].pc = "interrupt"
    /\ thr' = [thr EXCEPT ![t].pc = "close_channel"]
    /\ UNCHANGED <<args, call, launched, ctor, self, scheduler, workers, cmd_dict, rem, inq, outq,
                   puts, process, sd, mon, scope, printed, lines>>

\* channel.close(): the remote command is out of reach from here on.
CloseChannel(t) ==
    /\ process = "alive"
    /\ thr[t].pc = "close_channel"
    /\ thr' = [thr EXCEPT ![t].chan_closed = @ + 1, ![t].pc = "close_ssh"]
    /\ rem' = [rem EXCEPT ![t].st = "closed", ![t].status = 0, ![t].out = <<>>, ![t].err = <<>>]
    /\ UNCHANGED <<args, call, launched, ctor, self, scheduler, workers, cmd_dict, inq, outq,
                   puts, process, sd, mon, scope, printed, lines>>

\* ssh.close(); async_ssh returns.
CloseSSH(t) ==
    /\ process = "alive"
    /\ thr[t].pc = "close_ssh"
    /\ thr' = [thr EXCEPT ![t].ssh_closed = @ + 1, ![t].pc = "done"]
    /\ UNCHANGED <<args, call, launched, ctor, self, scheduler, workers, cmd_dict, rem, inq, outq,
                   puts, process, sd, mon, scope, printed, lines>>

\* ------------------------------------------------------- remote processes
\* The line endings a remote pseudo-terminal line is modelled with.
LineEnds == {<<"\r", "\n">>, <<" ", "\f", "\r", "\n">>}

\* The remote command of thread t writes a line to one of its streams.
RemoteEmit(t) ==
    /\ process = "alive"
    /\ InLoops(t)
    /\ rem[t].st = "running"
    /\ lines < MaxLines
    /\ \E stream \in {"out", "err"}, e \in LineEnds :
         LET text == ToStr(Len(rem[t].emitted) + 1)
             line == text \o e
         IN rem' = [rem EXCEPT
                ![t].out = IF stream = "out" THEN Append(@, line) ELSE @,
                ![t].err = IF stream = "err" THEN Append(@, line) ELSE @,
                ![t].emitted = Append(@, [stream |-> stream, line |-> line, text |-> text])]
    /\ lines' = lines + 1
    /\ UNCHANGED <<args, call, launched, ctor, self, scheduler, workers, cmd_dict, thr, inq, outq,
                   puts, process, sd, mon, scope, printed>>

\* The remote command of thread t starts to write lines to stdout without a
\* pause as long as the timeout of the channel.
RemotePour(t) ==
    /\ process = "alive"
    /\ InLoops(t)
    /\ rem[t].st = "running"
    /\ rem' = [rem EXCEPT ![t].st = "pouring"]
    /\ UNCHANGED <<args, call, launched, ctor, self, scheduler, workers, cmd_dict, thr, inq, outq,
                   puts, process, sd, mon, scope, printed, lines>>

\* The remote command of thread t ends, by itself or on an interrupt, with
\* one of the given exit statuses.
RemoteExit(t, statuses) ==
    /\ process = "alive"
    /\ InLoops(t)
    /\ rem[t].st \in {"running", "pouring"}
    /\ \E status \in statuses :
         rem' = [rem EXCEPT ![t].st = "exited", ![t].status = status]
    /\ UNCHANGED <<args, call, launched, ctor, self, scheduler, workers, cmd_dict, thr, inq, outq,
                   puts, process, sd, mon, scope, printed, lines>>

\* -------------------------------------------------------------- supervisor
\* [self.scheduler] + self.workers, as the threads (and queues) of the handles.
all_processes == <<scheduler.thread>> \o [i \in 1..Len(workers) |-> workers[i].thread]

\* A call of SSHCluster.add_worker(address) by the program, up to the return
\* of start_worker.
AddWorker(limit, addresses) ==
    /\ process = "alive"
    /\ ctor = "ready"
    /\ launched = NoHandle
    /\ Len(workers) < limit
    /\ \E address \in addresses : add_worker(address)
    /\ sd' = [sd EXCEPT !.racing_add = @ \/ sd.pc \in {"put", "join"}]
    /\ UNCHANGED <<args, call, ctor, self, scheduler, workers, process, mon, scope,
                   printed, lines>>

\* The handle is appended and that call of add_worker returns.  racing_add
\* records that a call of add_worker overlapped with the call of shutdown().
AddWorkerAppend ==
    /\ process = "alive"
    /\ ctor = "ready"
    /\ launched # NoHandle
    /\ append_worker
    /\ sd' = [sd EXCEPT !.racing_add = @ \/ sd.pc \in {"put", "join"}]
    /\ UNCHANGED <<args, call, ctor, self, scheduler, cmd_dict, thr, rem, inq, outq, puts,
                   process, mon, scope, printed, lines>>

\* `cluster.nprocs = value`: the setter of the nprocs property.
SetNprocs(values) ==
    /\ process = "alive"
    /\ ctor = "ready"
    /\ \E value \in values : self' = [self EXCEPT !.n_workers = value]
    /\ UNCHANGED <<args, call, launched, ctor, scheduler, workers, cmd_dict, thr, rem, inq,
                   outq, puts, process, sd, mon, scope, printed, lines>>

\* A shutdown() that handles the scheduler only.
shutdown_scheduler_only(by) ==
    sd' = [sd EXCEPT !.pc = "put", !.procs = <<scheduler.thread>>, !.i = 1,
                     !.calls = @ + 1, !.by = by, !.racing_add = launched # NoHandle]

\* A shutdown() that handles the scheduler and then the workers, last added first.
shutdown_newest_first(by) ==
    sd' = [sd EXCEPT !.pc = "put",
                     !.procs = <<scheduler.thread>> \o
                               [i \in 1..Len(workers) |->
                                   workers[Len(workers) + 1 - i].thread],
                     !.i = 1, !.calls = @ + 1, !.by = by, !.racing_add = launched # NoHandle]

\* shutdown() is entered: all_processes is formed.
shutdown(by) ==
    sd' = [sd EXCEPT !.pc = "put", !.procs = all_processes, !.i = 1,
                     !.calls = @ + 1, !.by = by, !.racing_add = launched # NoHandle]

\* A direct call of SSHCluster.shutdown() by the program.
ShutdownCall(maxcalls) ==
    /\ process = "alive"
    /\ ctor = "ready"
    /\ sd.pc \in {"idle", "returned"}
    /\ scope.pc # "exiting"
    /\ sd.calls < maxcalls
    /\ shutdown("direct")
    /\ UNCHANGED <<args, call, launched, ctor, self, scheduler, workers, cmd_dict, thr, rem, inq,
                   outq, puts, process, mon, scope, printed, lines>>

\* process["input_queue"].put("shutdown")
ShutdownPut ==
    /\ process = "alive"
    /\ sd.pc = "put"
    /\ inq' = [inq EXCEPT ![sd.procs[sd.i]] = Append(@, "shutdown")]
    /\ sd' = [sd EXCEPT !.pc = "join"]
    /\ UNCHANGED <<args, call, launched, ctor, self, scheduler, workers, cmd_dict, thr, rem,
                   outq, puts, process, mon, scope, printed, lines>>

\* A shutdown() that does not wait for the thread it signalled.
ShutdownJoinNoWait ==
    /\ process = "alive"
    /\ sd.pc = "join"
    /\ IF sd.i < Len(sd.procs)
       THEN /\ sd' = [sd EXCEPT !.pc = "put", !.i = @ + 1]
            /\ UNCHANGED scope
       ELSE /\ sd' = [sd EXCEPT !.pc = "returned", !.returned = @ + 1]
            /\ scope' = IF sd.by = "exit" THEN [scope EXCEPT !.pc = "exited"] ELSE scope
    /\ UNCHANGED <<args, call, launched, ctor, self, scheduler, workers, cmd_dict, thr, rem, inq,
                   outq, puts, process, mon, printed, lines>>

\* process["thread"].join() returns: the thread is no longer alive.  After the
\* last handle shutdown() returns, and with it __exit__ when it made the call.
ShutdownJoin ==
    /\ process = "alive"
    /\ sd.pc = "join"
    /\ Terminated(sd.procs[sd.i])
    /\ IF sd.i < Len(sd.procs)
       THEN /\ sd' = [sd EXCEPT !.pc = "put", !.i = @ + 1]
            /\ UNCHANGED scope
       ELSE /\ sd' = [sd EXCEPT !.pc = "returned", !.returned = @ + 1]
            /\ scope' = IF sd.by = "exit" THEN [scope EXCEPT !.pc = "exited"] ELSE scope
    /\ UNCHANGED <<args, call, launched, ctor, self, scheduler, workers, cmd_dict, thr, rem, inq,
                   outq, puts, process, mon, printed, lines>>

\* `with cluster as value:` is entered; __enter__ returns self.
ScopeEnter ==
    /\ process = "alive"
    /\ ctor = "ready"
    /\ scope.pc = "out"
    /\ scope' = [scope EXCEPT !.pc = "in", !.value = "self"]
    /\ UNCHANGED <<args, call, launched, ctor, self, scheduler, workers, cmd_dict, thr, rem, inq,
                   outq, puts, process, sd, mon, printed, lines>>

\* An __exit__ that shuts the cluster down only when the body ended normally.
ScopeExitSkipOnError(maxcalls) ==
    /\ process = "alive"
    /\ scope.pc = "in"
    /\ sd.pc \in {"idle", "returned"}
    /\ sd.calls < maxcalls
    /\ \/ /\ scope' = [scope EXCEPT !.pc = "exiting", !.how = "normal"]
          /\ shutdown("exit")
       \/ /\ scope' = [scope EXCEPT !.pc = "exited", !.how = "exception"]
          /\ UNCHANGED sd
    /\ UNCHANGED <<args, call, launched, ctor, self, scheduler, workers, cmd_dict, thr, rem, inq,
                   outq, puts, process, mon, printed, lines>>

\* The body of the with-statement ends, normally or by an exception, and
\* __exit__ calls self.shutdown().
ScopeExit(maxcalls) ==
    /\ process = "alive"
    /\ scope.pc = "in"
    /\ sd.pc \in {"idle", "returned"}
    /\ sd.calls < maxcalls
    /\ \E how \in {"normal", "exception"} :
         scope' = [scope EXCEPT !.pc = "exiting", !.how = how]
    /\ shutdown("exit")
    /\ UNCHANGED <<args, call, launched, ctor, self, scheduler, workers, cmd_dict, thr, rem, inq,
                   outq, puts, process, mon, printed, lines>>

\* monitor_remote_processes() is entered: all_processes is formed.
MonitorCall ==
    /\ process = "alive"
    /\ ctor = "ready"
    /\ mon.pc = "idle"
    /\ mon' = [pc |-> "sweep", procs |-> all_processes, i |-> 1, got |-> <<>>]
    /\ UNCHANGED <<args, call, launched, ctor, self, scheduler, workers, cmd_dict, thr, rem, inq,
                   outq, puts, process, sd, scope, printed, lines>>

\* monitor_remote_processes() is running.
MonitorRuns == mon.pc \in {"sweep", "print"}

\* `while not process["output_queue"].empty()` finds an entry on the queue of
\* the process the sweep is at, and `process["output_queue"].get()` takes it.
MonitorDrain ==
    /\ process = "alive"
    /\ mon.pc = "sweep"
    /\ outq[mon.procs[mon.i]] # <<>>
    /\ mon' = [mon EXCEPT !.pc = "print", !.got = Head(outq[mon.procs[mon.i]])]
    /\ outq' = [outq EXCEPT ![mon.procs[mon.i]] = Tail(@)]
    /\ UNCHANGED <<args, call, launched, ctor, self, scheduler, workers, cmd_dict, thr, rem, inq,
                   puts, process, sd, scope, printed, lines>>

\* print(...) of the entry taken.
MonitorPrint ==
    /\ process = "alive"
    /\ mon.pc = "print"
    /\ printed' = Recorded(printed, mon.got)
    /\ mon' = [mon EXCEPT !.pc = "sweep", !.got = <<>>]
    /\ UNCHANGED <<args, call, launched, ctor, self, scheduler, workers, cmd_dict, thr, rem, inq,
                   outq, puts, process, sd, scope, lines>>

\* The test finds the queue empty: the sweep goes to the next process, and
\* after the last one, sleep(0.1) and sweep again.
MonitorNext ==
    /\ process = "alive"
    /\ mon.pc = "sweep"
    /\ outq[mon.procs[mon.i]] = <<>>
    /\ mon' = [mon EXCEPT !.i = IF @ < Len(mon.procs) THEN @ + 1 ELSE 1]
    /\ UNCHANGED <<args, call, launched, ctor, self, scheduler, workers, cmd_dict, thr, rem, inq,
                   outq, puts, process, sd, scope, printed, lines>>

\* KeyboardInterrupt: monitor_remote_processes returns; an entry taken and not
\* yet printed stays unprinted.
MonitorInterrupt ==
    /\ process = "alive"
    /\ mon.pc \in {"sweep", "print"}
    /\ mon' = [mon EXCEPT !.pc = "returned"]
    /\ UNCHANGED <<args, call, launched, ctor, self, scheduler, workers, cmd_dict, thr, rem, inq,
                   outq, puts, process, sd, scope, printed, lines>>

\* ------------------------------------------------- direct launcher calls
\* start_worker(...) called with the parameters call.p.
StartWorker ==
    /\ process = "alive"
    /\ call.role = "worker"
    /\ launched = NoHandle
    /\ start_worker(call.p)
    /\ UNCHANGED <<args, call, ctor, self, scheduler, workers, process, sd, mon,
                   scope, printed, lines>>

\* start_scheduler(...) called with the parameters call.p.
StartScheduler ==
    /\ process = "alive"
    /\ call.role = "scheduler"
    /\ launched = NoHandle
    /\ start_scheduler(call.p.logdir, call.p.addr, call.p.port, call.p.remote_python)
    /\ UNCHANGED <<args, call, ctor, self, scheduler, workers, process, sd, mon,
                   scope, printed, lines>>

\* ----------------------------------------------------------- specifications
\* The steps of a runner thread and of its remote command, without output lines.
Runner(t, outcomes, statuses) ==
    \/ \E outcome \in outcomes : Connect(t, outcome)
    \/ Exec(t)
    \/ IdleCycle(t)
    \/ IdleExit(t)
    \/ IntCycle(t)
    \/ ReadStdout(t)
    \/ ReadStderr(t)
    \/ CheckExit(t)
    \/ IntTimeout(t)
    \/ CloseChannel(t)
    \/ CloseSSH(t)
    \/ RemoteExit(t, statuses)

NoCall == [role |-> "none"]

PlainArgs(lists) ==
    [nprocs : {None}, n_workers : {None}, unexpected : {FALSE}, logdir : {NoneStr},
     worker_addrs : lists]

\* A cluster of a scheduler and up to MaxWorkers workers, each added by a call
\* of add_worker, that is shut down once; connections do not fail with SSH
\* errors, and the remote commands exit with status 0.
Next ==
    \/ CtorBegin
    \/ CtorScheduler
    \/ AddWorker(MaxWorkers, {"10.0.0.2"})
    \/ AddWorkerAppend
    \/ ShutdownCall(1)
    \/ ShutdownPut
    \/ ShutdownJoin
    \/ \E t \in Threads : Runner(t, {"ok", "other"}, {0})

Init ==
    /\ args \in PlainArgs({<<>>})
    /\ call = NoCall
    /\ InitCommon

Spec == Init /\ [][Next]_vars

\* A cluster of a scheduler and up to MaxOrderWorkers workers, added by the
\* constructor in the order of its list, that is shut down once.  A connection
\* succeeds or fails with an error other than an SSH error, and the remote
\* commands run until their connections are closed.
NextOrder ==
    \/ CtorBegin
    \/ CtorScheduler
    \/ CtorWorker
    \/ CtorAppend
    \/ ShutdownCall(1)
    \/ ShutdownPut
    \/ ShutdownJoin
    \/ \E t \in Threads :
         \/ \E outcome \in {"ok", "other"} : Connect(t, outcome)
         \/ Exec(t)
         \/ IdleCycle(t)
         \/ IdleExit(t)
         \/ IntCycle(t)
         \/ ReadStdout(t)
         \/ ReadStderr(t)
         \/ CheckExit(t)
         \/ IntTimeout(t)
         \/ CloseChannel(t)
         \/ CloseSSH(t)

InitOrder ==
    /\ args \in PlainArgs(SeqsUpTo({"10.0.0.2"}, MaxOrderWorkers))
    /\ call = NoCall
    /\ InitCommon

SpecOrder == InitOrder /\ [][NextOrder]_vars

\* A cluster of a scheduler and one worker used in a with-statement, with up
\* to MaxShutdowns calls of shutdown(); the remote commands exit with status 0.
NextScope ==
    \/ CtorBegin
    \/ CtorScheduler
    \/ CtorWorker
    \/ CtorAppend
    \/ ShutdownCall(MaxShutdowns)
    \/ ShutdownPut
    \/ ShutdownJoin
    \/ ScopeEnter
    \/ ScopeExit(MaxShutdowns)
    \/ \E t \in Threads : Runner(t, {"ok", "other"}, {0})

InitScope ==
    /\ args \in PlainArgs({<<"10.0.0.2">>})
    /\ call = NoCall
    /\ InitCommon

SpecScope == InitScope /\ [][NextScope]_vars

\* One runner (the scheduler's) with every outcome of a connection attempt and
\* a remote command that writes lines, shut down once.
NextRunner ==
    \/ CtorBegin
    \/ CtorScheduler
    \/ ShutdownCall(1)
    \/ ShutdownPut
    \/ ShutdownJoin
    \/ \E t \in Threads :
         \/ Runner(t, {"ok", "SSHException", "other"}, ExitStatuses)
         \/ RemoteEmit(t)

InitRunner ==
    /\ args \in PlainArgs({<<>>})
    /\ call = NoCall
    /\ InitCommon

SpecRunner == InitRunner /\ [][NextRunner]_vars

\* Construction with every combination of the arguments, one call of
\* add_worker on the constructed cluster, and assignments to nprocs; the
\* runners get as far as starting their commands.
NextCtor ==
    \/ CtorBegin
    \/ CtorScheduler
    \/ CtorWorker
    \/ CtorAppend
    \/ AddWorker(Len(args.worker_addrs) + 1, WorkerAddrs)
    \/ AddWorkerAppend
    \/ SetNprocs({"1", "4"})
    \/ \E t \in Threads :
         \/ \E outcome \in {"ok", "other"} : Connect(t, outcome)
         \/ Exec(t)

InitCtor ==
    /\ args \in CtorArgs
    /\ call = NoCall
    /\ InitCommon

SpecCtor == InitCtor /\ [][NextCtor]_vars

\* A cluster that is monitored and never shut down; workers may be added
\* while the monitor runs.
RunnerUnsignalled(t) ==
    \/ Connect(t, "ok")
    \/ Exec(t)
    \/ IdleCycle(t)
    \/ IntCycle(t)
    \/ ReadStdout(t)
    \/ ReadStderr(t)
    \/ CheckExit(t)
    \/ IntTimeout(t)
    \/ CloseChannel(t)
    \/ CloseSSH(t)
    \/ RemoteExit(t, ExitStatuses)

NextMonitor ==
    \/ CtorBegin
    \/ CtorScheduler
    \/ AddWorker(MaxWorkers, {"10.0.0.2"})
    \/ AddWorkerAppend
    \/ MonitorCall
    \/ MonitorDrain
    \/ MonitorPrint
    \/ MonitorNext
    \/ MonitorInterrupt
    \/ \E t \in Threads : RunnerUnsignalled(t)

InitMonitor ==
    /\ args \in PlainArgs({<<>>})
    /\ call = NoCall
    /\ InitCommon

SpecMonitor == InitMonitor /\ [][NextMonitor]_vars

\* The threads are scheduled fairly: the monitor's loop and every runner
\* thread keep taking steps.  Nothing obliges the program to call anything,
\* the remote commands to end, or the operator to interrupt.
FairSpecMonitor ==
    /\ SpecMonitor
    /\ WF_vars(MonitorDrain \/ MonitorPrint \/ MonitorNext)
    /\ \A t \in 1..(MaxWorkers + 1) :
         WF_vars(t \in Threads /\ (Connect(t, "ok") \/ Exec(t) \/ IdleCycle(t) \/ IntCycle(t)
                                   \/ ReadStdout(t) \/ ReadStderr(t) \/ CheckExit(t)
                                   \/ IntTimeout(t) \/ CloseChannel(t) \/ CloseSSH(t)))

\* A cluster of a scheduler and one worker that is never shut down: the remote
\* commands run until they exit by themselves.
NextExit ==
    \/ CtorBegin
    \/ CtorScheduler
    \/ CtorWorker
    \/ CtorAppend
    \/ \E t \in Threads : RunnerUnsignalled(t)

InitExit ==
    /\ args \in PlainArgs({<<"10.0.0.2">>})
    /\ call = NoCall
    /\ InitCommon

SpecExit == InitExit /\ [][NextExit]_vars

\* The threads of a scheduler and one worker.
PairThreads == {1, 2}

\* Every runner thread keeps taking steps; nothing obliges a remote command
\* to end.
FairSpecExit ==
    /\ SpecExit
    /\ WF_vars(CtorScheduler)
    /\ WF_vars(CtorWorker)
    /\ WF_vars(CtorAppend)
    /\ \A t \in PairThreads :
         WF_vars(t \in Threads /\ (Connect(t, "ok") \/ Exec(t) \/ IdleCycle(t) \/ IntCycle(t)
                                   \/ ReadStdout(t) \/ ReadStderr(t) \/ CheckExit(t)
                                   \/ IntTimeout(t) \/ CloseChannel(t) \/ CloseSSH(t)))

\* One runner (the scheduler's) with every outcome of a connection attempt and
\* a remote command that may write without pause; one thread of the program
\* is in monitor_remote_processes(), which is not interrupted, when another
\* calls shutdown(), once.
NextQuit ==
    \/ CtorBegin
    \/ CtorScheduler
    \/ MonitorCall
    \/ MonitorDrain
    \/ MonitorPrint
    \/ MonitorNext
    \/ (MonitorRuns /\ ShutdownCall(1))
    \/ ShutdownPut
    \/ ShutdownJoin
    \/ \E t \in Threads :
         \/ Runner(t, {"ok", "SSHException", "other"}, ExitStatuses)
         \/ ReadLine(t)
         \/ RemotePour(t)

InitQuit ==
    /\ args \in PlainArgs({<<>>})
    /\ call = NoCall
    /\ InitCommon

SpecQuit == InitQuit /\ [][NextQuit]_vars

\* The scheduler's thread.
LoneThread == {1}

\* The thread that called shutdown(), the monitor's loop and the runner thread
\* keep taking steps.  Nothing obliges a connection attempt to succeed, the
\* program to call anything, or a remote command to end or to stop writing.
FairSpecQuit ==
    /\ SpecQuit
    /\ WF_vars(MonitorDrain \/ MonitorPrint \/ MonitorNext)
    /\ WF_vars(ShutdownPut)
    /\ WF_vars(ShutdownJoin)
    /\ \A t \in LoneThread :
         WF_vars(t \in Threads /\ ((\E outcome \in {"ok", "SSHException", "other"} :
                                       Connect(t, outcome))
                                   \/ Exec(t) \/ IdleCycle(t) \/ IdleExit(t) \/ IntCycle(t)
                                   \/ IntTimeout(t) \/ CloseChannel(t) \/ CloseSSH(t)
                                   \/ ReadStdout(t) \/ ReadStderr(t) \/ CheckExit(t)
                                   \/ ReadLine(t)))

\* Direct calls of the two launchers with every combination of parameters.
ValueTokens(truthy) == {None, "0", truthy}

WorkerCalls ==
    [scheduler_addr : {"10.0.0.1"}, scheduler_port : {"8786"},
     worker_addr : {"10.0.0.2"}, nthreads : {"0"},
     n_workers : {"1", "4"}, nohost : BOOLEAN,
     memory_limit : ValueTokens("4GB"), worker_port : ValueTokens("9000"),
     nanny_port : ValueTokens("9001"),
     remote_python : {None, "/opt/python"},
     remote_dask_worker : {"distributed.cli.dask_worker"},
     local_directory : {None, "", "/scratch"}, logdir : LogDirs]

SchedulerCalls ==
    [logdir : LogDirs, addr : {"10.0.0.1"}, port : {"8786", "0"},
     remote_python : {None, "/opt/python"}]

NextCmd ==
    \/ StartWorker
    \/ StartScheduler

InitCmd ==
    /\ args \in PlainArgs({<<>>})
    /\ call \in [role : {"worker"}, p : WorkerCalls] \cup [role : {"scheduler"}, p : SchedulerCalls]
    /\ InitCommon

SpecCmd == InitCmd /\ [][NextCmd]_vars

\* ------------------------------------------------------------------ claims
\* The threads of the handles of the cluster, scheduler first; empty before
\* the scheduler is started.
HandleThreads == IF scheduler = NoHandle THEN <<>> ELSE all_processes

\* C1: when shutdown() returns, the thread of every handle it was called for
\* has terminated; called without a concurrent add_worker these are all the
\* handles of the cluster; and once it has returned nothing more is put on the
\* output queue of any of them.
C1_ShutdownQuiesces ==
    /\ [](sd.pc = "returned" =>
            \A i \in 1..Len(sd.procs) : thr[sd.procs[i]].pc \in {"done", "raised"})
    /\ [][(sd.pc # "returned" /\ sd'.pc = "returned" /\ ~sd.racing_add)
            => sd.procs = HandleThreads']_vars
    /\ [][sd.pc = "returned" =>
            \A i \in 1..Len(sd.procs) : puts'[sd.procs[i]] = puts[sd.procs[i]]]_vars

\* shutdown() has returned for a scheduler and a worker, each of which had
\* put something on its output queue.
C1_Witness ==
    /\ sd.pc = "returned"
    /\ ~sd.racing_add
    /\ Len(sd.procs) = 2
    /\ \A i \in 1..2 : puts[sd.procs[i]] # <<>>

\* C2: a handle holds a shutdown token only when the thread of every earlier
\* handle (scheduler first, then the workers in the order added) has
\* terminated, and shutdown() goes through the handles in that order.
C2_OneAfterAnother ==
    /\ \A i \in 1..Len(HandleThreads) :
         inq[HandleThreads[i]] # <<>> =>
           \A j \in 1..(i - 1) : thr[HandleThreads[j]].pc \in {"done", "raised"}
    /\ sd.pc \in {"put", "join", "returned"} =>
         /\ Len(sd.procs) <= Len(HandleThreads)
         /\ sd.procs = SubSeq(HandleThreads, 1, Len(sd.procs))
         /\ \A i \in 1..Len(sd.procs) :
              inq[sd.procs[i]] # <<>> <=> (i < sd.i \/ (i = sd.i /\ sd.pc # "put"))

\* The worker added second holds its token and is still running, the
\* scheduler's thread and then the thread of the worker added first having
\* ended by returning.
C2_Witness ==
    /\ Len(HandleThreads) = 3
    /\ sd.i = 3
    /\ inq[HandleThreads[3]] # <<>>
    /\ thr[HandleThreads[3]].pc = "interrupt"
    /\ thr[HandleThreads[2]].pc = "done"
    /\ thr[HandleThreads[1]].pc = "done"
    /\ thr[HandleThreads[2]].interrupts > 0

\* C3: a runner makes at most 3 connection attempts and executes its command
\* only after an attempt succeeded; after three SSH failures the process has
\* exited with status 1, the runner has not executed its command, and nothing
\* in the process takes a step any more.
C3_BoundedRetry ==
    /\ [](\A t \in Threads :
            /\ thr[t].attempts <= 3
            /\ thr[t].execs > 0 => thr[t].connected
            /\ thr[t].retries >= 3 =>
                 (process = "exit1" /\ thr[t].execs = 0 /\ ~thr[t].connected))
    /\ [][process = "alive"]_vars

\* Three attempts failed with an SSH error and the process has exited.
C3_Witness ==
    /\ process = "exit1"
    /\ \E t \in Threads : thr[t].retries = 3 /\ thr[t].attempts = 3

\* C4: with both nprocs and n_workers supplied __init__ raises (ValueError,
\* unless an unexpected keyword made it raise TypeError first) and no thread
\* is ever started, no handle created and no connection attempted.
C4_BothCountsRejected ==
    (args.nprocs # None /\ args.n_workers # None) =>
        /\ ctor \in {"new", "TypeError", "ValueError"}
        /\ (ctor # "new" /\ ~args.unexpected) => ctor = "ValueError"
        /\ thr = <<>>
        /\ cmd_dict = <<>>
        /\ scheduler = NoHandle
        /\ launched = NoHandle
        /\ workers = <<>>

\* __init__ was called with both arguments and has raised ValueError.
C4_Witness ==
    /\ args.nprocs # None
    /\ args.n_workers # None
    /\ ctor = "ValueError"

\* The entries of an output queue history that carry no failure marker: the
\* stdout lines.
PlainEntries(q) == SelectSeq(q, LAMBDA e : \A k \in 1..Len(e) : e[k] # FAIL)

\* The lines a remote command wrote to stdout, in the order written.
StdoutEmitted(t) == SelectSeq(rem[t].emitted, LAMBDA e : e.stream = "out")

\* C5: the stdout entries on a runner's output queue are, in order and without
\* repetition, the stdout lines its remote command emitted and the runner has
\* read, each as the label prefix followed by the line's text.
C5_StdoutInOrder ==
    \A t \in Threads :
        LET got == PlainEntries(puts[t])
            sent == StdoutEmitted(t)
        IN /\ Len(got) <= Len(sent)
           /\ \A i \in 1..Len(got) :
                got[i] = <<"[ ">> \o cmd_dict[t].label \o <<" ] : ">> \o sent[i].text
           /\ InLoops(t) => Len(got) + Len(rem[t].out) = Len(sent)

\* A runner has forwarded two or more stdout lines, one of which ended in
\* a blank and a form feed before its line end.
C5_Witness ==
    \E t \in Threads :
        /\ Len(PlainEntries(puts[t])) >= 2
        /\ \E i \in 1..Len(StdoutEmitted(t)) : Len(StdoutEmitted(t)[i].line) = 5

\* C6 as claimed: a second call of shutdown(), made after the first one has
\* returned, never returns.
C6_SecondCallNeverReturns == ~(sd.calls >= 2 /\ sd.pc = "returned")

\* C6 as amended: a second call of shutdown(), made after the first one has
\* returned, is never kept waiting: it puts one more token on each input queue,
\* and each join() finds a thread that has already terminated.
C6_SecondCallNeverWaits ==
    sd.calls >= 2 =>
        /\ sd.pc = "join" => thr[sd.procs[sd.i]].pc \in {"done", "raised"}
        /\ \A i \in 1..Len(sd.procs) :
             /\ thr[sd.procs[i]].pc \in {"done", "raised"}
             /\ Len(inq[sd.procs[i]]) =
                  sd.calls - (IF i < sd.i \/ (i = sd.i /\ sd.pc # "put") THEN 0 ELSE 1)

\* The second call of shutdown() has returned, both handles holding two tokens.
C6_Witness ==
    /\ sd.calls = 2
    /\ sd.pc = "returned"
    /\ Len(sd.procs) = 2
    /\ \A i \in 1..2 : Len(inq[sd.procs[i]]) = 2

\* C7: add_worker starts exactly one thread, with queues of its own, and then
\* appends exactly one handle, that thread's, at the end of self.workers; in
\* both steps the scheduler handle and every earlier worker handle, their
\* command dictionaries, queues and threads are as before; and nothing else
\* starts a thread or changes self.workers.
C7_AddWorkerFrame ==
    /\ [][(ctor \in {"workers", "ready"} /\ Len(thr') # Len(thr)) =>
            /\ launched = NoHandle
            /\ Len(thr') = Len(thr) + 1
            /\ launched'.thread = Len(thr')
            /\ launched'.input_queue = Len(thr')
            /\ launched'.output_queue = Len(thr')
            /\ thr'[Len(thr')].pc = "connect"
            /\ inq'[Len(thr')] = <<>>
            /\ outq'[Len(thr')] = <<>>
            /\ workers' = workers
            /\ scheduler' = scheduler
            /\ \A t \in Threads :
                 /\ thr'[t] = thr[t]
                 /\ cmd_dict'[t] = cmd_dict[t]
                 /\ inq'[t] = inq[t]
                 /\ outq'[t] = outq[t]
                 /\ rem'[t] = rem[t]]_vars
    /\ [][workers' # workers =>
            /\ launched # NoHandle
            /\ launched' = NoHandle
            /\ Len(workers') = Len(workers) + 1
            /\ SubSeq(workers', 1, Len(workers)) = workers
            /\ workers'[Len(workers')] = launched
            /\ workers'[Len(workers')].thread = Len(thr)
            /\ scheduler' = scheduler
            /\ thr' = thr
            /\ cmd_dict' = cmd_dict
            /\ inq' = inq
            /\ outq' = outq
            /\ rem' = rem]_vars

\* add_worker was called on a constructed cluster that had one worker: there
\* are two now, the first still with the thread started after the scheduler's.
C7_Witness ==
    /\ ctor = "ready"
    /\ Len(args.worker_addrs) = 1
    /\ Len(workers) = 2
    /\ workers[1].thread = 2
    /\ workers[2].thread = 3
    /\ workers[1].address # workers[2].address

\* C8: __enter__ returns the cluster itself; leaving the with-statement, on
\* either exit path, calls shutdown(), and when the exit completes every handle
\* holds a shutdown token and its thread has terminated.
C8_ScopeShutsDown ==
    /\ scope.pc # "out" => scope.value = "self"
    /\ scope.pc = "exiting" => (sd.pc \in {"put", "join"} /\ sd.by = "exit")
    /\ scope.pc = "exited" =>
         /\ sd.returned >= 1
         /\ \A i \in 1..Len(HandleThreads) :
              /\ inq[HandleThreads[i]] # <<>>
              /\ thr[HandleThreads[i]].pc \in {"done", "raised"}

\* The with-statement was left by an exception and its exit has completed,
\* for a scheduler and a worker that had not been shut down before.
C8_Witness ==
    /\ scope.pc = "exited"
    /\ scope.how = "exception"
    /\ sd.calls = 1
    /\ Len(HandleThreads) = 2

\* The number of entries of thread t's output queue that have been printed:
\* those put and no longer on the queue, but for one taken and not yet printed.
PrintedOf(t) ==
    IF t \in Threads
    THEN Len(puts[t]) - Len(outq[t])
         - (IF mon.pc = "print" /\ mon.procs[mon.i] = t THEN 1 ELSE 0)
    ELSE 0

\* The number of entries ever put on thread t's output queue.
PutOf(t) == IF t \in Threads THEN Len(puts[t]) ELSE 0

\* The entries of `printed` that carry the label of thread t.
PrintedWithLabel(t) ==
    SelectSeq(printed, LAMBDA e : SubSeq(e, 1, Len(Prefix(cmd_dict[t].label)))
                                     = Prefix(cmd_dict[t].label))

\* C9 as claimed: while monitor_remote_processes() runs, the k-th entry put on
\* the output queue of any handle of the cluster is eventually printed, and
\* what is printed for a handle is what was put on its queue, in that order.
C9_EveryLinePrinted ==
    /\ \A t \in 1..(MaxWorkers + 1) : \A k \in 1..2 :
         (MonitorRuns /\ PutOf(t) >= k)
            ~> (~MonitorRuns \/ PrintedOf(t) >= k)
    /\ [](\A t \in Threads :
            PrintedWithLabel(t) = SubSeq(puts[t], 1, Len(PrintedWithLabel(t))))

\* Whether the command string (a sequence of pieces) has the flag.
HasFlag(cmd, flag) == \E i \in 1..Len(cmd) : cmd[i] = flag

\* C10 as claimed: the command start_worker builds has --nworkers iff the count
\* is not 1, --host iff nohost is not set, and each of --memory-limit,
\* --worker-port, --nanny-port, --local-directory iff its parameter is not None.
C10_FlagsIffProvided ==
    (call.role = "worker" /\ launched # NoHandle) =>
        /\ HasFlag(launched.cmd, " --nworkers ") <=> call.p.n_workers # "1"
        /\ HasFlag(launched.cmd, " --host ") <=> ~call.p.nohost
        /\ HasFlag(launched.cmd, " --memory-limit ") <=> call.p.memory_limit # None
        /\ HasFlag(launched.cmd, " --worker-port ") <=> call.p.worker_port # None
        /\ HasFlag(launched.cmd, " --nanny-port ") <=> call.p.nanny_port # None
        /\ HasFlag(launched.cmd, " --local-directory ") <=> call.p.local_directory # None


\* C11: a step in which a runner puts a termination notice finds its remote
\* command exited, puts the labelled notice with that exit status last on its
\* output queue, leaves the process alive and changes nothing of any other
\* runner; a runner that left its loops while its input queue was empty has
\* put a notice; and under fair scheduling a runner whose remote command has
\* exited while its input queue is empty terminates, token or no token.
C11_ExitReported ==
    /\ [][\A t \in Threads :
            thr'[t].notices > thr[t].notices =>
              /\ rem[t].st = "exited"
              /\ puts'[t] # <<>>
              /\ puts'[t][Len(puts'[t])] =
                   <<"[ ">> \o cmd_dict[t].label
                   \o <<" ] : ", FAIL, "remote process exited with exit status ">>
                   \o (IF rem[t].status = 0 THEN <<"0">> ELSE <<"1", "3", "0">>)
                   \o <<ENDC>>
              /\ process' = "alive"
              /\ \A u \in Threads \ {t} :
                   /\ thr'[u] = thr[u]
                   /\ rem'[u] = rem[u]
                   /\ inq'[u] = inq[u]
                   /\ outq'[u] = outq[u]]_vars
    /\ [](\A t \in Threads :
            (thr[t].execs > 0 /\ inq[t] = <<>>
             /\ thr[t].pc \in {"close_channel", "close_ssh", "done", "raised"})
               => thr[t].notices >= 1)
    /\ \A t \in PairThreads :
         (t \in Threads /\ rem[t].st = "exited" /\ inq[t] = <<>>)
            ~> (t \in Threads /\ thr[t].pc \in {"done", "raised"})

\* The worker's command has exited with status 130 and its runner has ended
\* without a token, while the scheduler's runner is still in its idle loop.
C11_Witness ==
    /\ Len(thr) = 2
    /\ thr[2].pc = "done"
    /\ inq[2] = <<>>
    /\ thr[2].notices >= 1
    /\ \E k \in 1..Len(puts[2]) : puts[2][k] = <<"[ ">> \o cmd_dict[2].label
                        \o <<" ] : ", FAIL, "remote process exited with exit status ",
                             "1", "3", "0", ENDC>>
    /\ thr[1].pc = "idle"
    /\ rem[1].st = "running"
    /\ process = "alive"


\* The handles of the cluster, scheduler first; empty before the scheduler
\* is started.
Handles == IF scheduler = NoHandle THEN <<>> ELSE <<scheduler>> \o workers

\* C12 as claimed: in every state of a constructed cluster the number of
\* threads started is 1 plus the number of workers in self.workers.
C12_OneThreadPerHandle == ctor = "ready" => Len(thr) = 1 + Len(workers)

\* C12 as amended: the scheduler's thread is the first one started and the
\* i-th worker's the (i+1)-th; the workers of the initial list come first, in
\* list order, and the constructor returns when each has its worker; the
\* number of threads started is 1 plus the number of workers, and one more
\* while a call of add_worker has started its thread and not yet appended the
\* handle (none before the scheduler is started or when __init__ raised); and
\* no two handles share a thread, an input queue or an output queue.
C12_ConstructionOrder ==
    /\ ctor \in {"new", "TypeError", "ValueError"} =>
         (Len(thr) = 0 /\ Handles = <<>> /\ launched = NoHandle)
    /\ ctor = "scheduler" =>
         (Len(thr) = 1 /\ Handles = <<>> /\ workers = <<>> /\ launched.thread = 1)
    /\ ctor \in {"workers", "ready"} =>
         /\ scheduler.thread = 1
         /\ launched = NoHandle => Len(thr) = 1 + Len(workers)
         /\ launched # NoHandle =>
              /\ Len(thr) = 2 + Len(workers)
              /\ launched.thread = Len(thr)
              /\ launched.input_queue = Len(thr)
              /\ launched.output_queue = Len(thr)
         /\ \A i \in 1..Len(workers) :
              /\ workers[i].thread = i + 1
              /\ i <= Len(args.worker_addrs) => workers[i].address = args.worker_addrs[i]
         /\ ctor = "workers" => Len(workers) < Len(args.worker_addrs)
         /\ ctor = "ready" => Len(workers) >= Len(args.worker_addrs)
         /\ \A i \in 1..Len(Handles) :
              /\ Handles[i].thread \in Threads
              /\ Handles[i].input_queue \in Threads
              /\ Handles[i].output_queue \in Threads
              /\ \A j \in 1..Len(Handles) :
                   i # j => /\ Handles[i].thread # Handles[j].thread
                            /\ Handles[i].input_queue # Handles[j].input_queue
                            /\ Handles[i].output_queue # Handles[j].output_queue

\* The cluster was constructed with two different worker addresses, three
\* threads were started, the workers' in the order of the list, and a call of
\* add_worker has started a fourth thread and not yet appended its handle.
C12_Witness ==
    /\ ctor = "ready"
    /\ launched # NoHandle
    /\ Len(workers) = 2
    /\ args.worker_addrs = <<"10.0.0.3", "10.0.0.2">>
    /\ Len(thr) = 4
    /\ workers[1].address = "10.0.0.3"
    /\ workers[2].address = "10.0.0.2"
    /\ workers[1].thread = 2
    /\ workers[2].thread = 3


\* Whether an entry of an output queue is a termination notice.
IsNotice(e) == \E k \in 1..Len(e) : e[k] = "remote process exited with exit status "

\* C13 as claimed: among the entries a runner has put on its output queue
\* there is at most one termination notice, and when there is one it is the
\* last entry.
C13_NoticeOnceAndLast ==
    \A t \in Threads :
        LET n == Len(SelectSeq(puts[t], IsNotice))
        IN /\ n <= 1
           /\ n = 1 => IsNotice(puts[t][Len(puts[t])])


\* C14 as claimed: a runner has sent a Ctrl-C only if a shutdown token is on
\* its input queue, and a runner that has ended while its input queue was
\* still empty has closed the channel and the connection and sent no Ctrl-C.
C14_InterruptOnlyOnToken ==
    \A t \in Threads :
        /\ thr[t].interrupts > 0 => inq[t] # <<>>
        /\ (thr[t].execs > 0 /\ thr[t].pc \in {"done", "raised"} /\ inq[t] = <<>>) =>
             /\ thr[t].pc = "done"
             /\ thr[t].interrupts = 0
             /\ thr[t].chan_closed = 1
             /\ thr[t].ssh_closed = 1


\* The entries of an output queue history that forward a line of the remote
\* command: all but the termination notices.
LineEntries(q) == SelectSeq(q, LAMBDA e : ~IsNotice(e))

\* The entries of an output queue history that forward a stderr line.
ErrEntries(q) ==
    SelectSeq(q, LAMBDA e : ~IsNotice(e) /\ \E k \in 1..Len(e) : e[k] = FAIL)

\* The lines a remote command wrote to stderr, in the order written.
StderrEmitted(t) == SelectSeq(rem[t].emitted, LAMBDA e : e.stream = "err")

\* C15 as claimed: the entries a runner has put for the lines of its remote
\* command are, in order, the lines the command emitted on either stream, in
\* the order it emitted them.
C15_EmissionOrder ==
    \A t \in Threads :
        LET got == LineEntries(puts[t])
            sent == rem[t].emitted
        IN /\ Len(got) <= Len(sent)
           /\ \A i \in 1..Len(got) :
                got[i] = <<"[ ">> \o cmd_dict[t].label \o <<" ] : ">>
                         \o (IF sent[i].stream = "out" THEN sent[i].text
                             ELSE <<FAIL>> \o sent[i].text \o <<ENDC>>)

\* C15 as amended: the order of emission is kept within each stream.  The
\* stdout entries are, in order, the stdout lines emitted and read, and the
\* stderr entries the stderr lines emitted and read, each behind the label
\* prefix, and while the runner is in its loops no line is lost.
C15_OrderPerStream ==
    \A t \in Threads :
        LET gotOut == PlainEntries(puts[t])
            gotErr == ErrEntries(puts[t])
            sentOut == StdoutEmitted(t)
            sentErr == StderrEmitted(t)
        IN /\ Len(gotOut) <= Len(sentOut)
           /\ Len(gotErr) <= Len(sentErr)
           /\ \A i \in 1..Len(gotOut) :
                gotOut[i] = <<"[ ">> \o cmd_dict[t].label \o <<" ] : ">> \o sentOut[i].text
           /\ \A i \in 1..Len(gotErr) :
                gotErr[i] = <<"[ ">> \o cmd_dict[t].label
                            \o <<" ] : ", FAIL>> \o sentErr[i].text \o <<ENDC>>
           /\ InLoops(t) =>
                /\ Len(gotOut) + Len(rem[t].out) = Len(sentOut)
                /\ Len(gotErr) + Len(rem[t].err) = Len(sentErr)

\* A runner has forwarded two stderr lines in the order written and, ahead of
\* both, a stdout line the command wrote after them.
C15_Witness ==
    \E t \in Threads :
        /\ Len(rem[t].emitted) = 3
        /\ rem[t].emitted[1].stream = "err"
        /\ rem[t].emitted[2].stream = "err"
        /\ rem[t].emitted[3].stream = "out"
        /\ Len(LineEntries(puts[t])) = 3
        /\ LineEntries(puts[t])[1] = <<"[ ">> \o cmd_dict[t].label \o <<" ] : ", "3">>
        /\ Len(ErrEntries(puts[t])) = 2


\* C16 as claimed: under fair scheduling a call of shutdown() returns, unless
\* a connection exhausted its retries and the process exited; and a runner
\* sends at most as many Ctrl-C characters as the window has time units.
C16_ShutdownReturns ==
    /\ (sd.pc \in {"put", "join"}) ~> (sd.pc = "returned" \/ process = "exit1")
    /\ [](\A t \in Threads : thr[t].interrupts <= 5)


\* C17 as claimed: a runner closes the channel at most once and the connection
\* at most once, the connection never before the channel; it sends at most 5
\* Ctrl-C characters; and a runner that started its command and has ended has
\* closed both.
C17_AlwaysCloses ==
    \A t \in Threads :
        /\ thr[t].chan_closed <= 1
        /\ thr[t].ssh_closed <= thr[t].chan_closed
        /\ thr[t].interrupts <= 5
        /\ (thr[t].execs > 0 /\ thr[t].pc \in {"done", "raised"}) =>
             (thr[t].chan_closed = 1 /\ thr[t].ssh_closed = 1)


\* C18 as claimed: no runner has sent a Ctrl-C without having called
\* communicate() (a drain of both streams and a test of the exit status)
\* before it.
C18_DrainBeforeInterrupt ==
    \A t \in Threads : thr[t].interrupts > 0 => ~thr[t].blind_interrupt


\* Thread t has ended by a failure of ssh.connect that is not an SSH error.
FailedToConnect(t) == thr[t].pc = "raised" /\ ~thr[t].connected

\* C19: the step in which a connection attempt fails with another failure
\* than an SSH error is the runner's last: it ends the thread and leaves the
\* process alive; the runner has not executed its command, has put nothing on
\* its output queue and has closed nothing, it takes no further step (no
\* further attempt), and a join() of shutdown() on it returns.
C19_OtherFailureEndsRunner ==
    /\ [](\A t \in Threads :
            FailedToConnect(t) =>
              /\ thr[t].execs = 0
              /\ puts[t] = <<>>
              /\ outq[t] = <<>>
              /\ thr[t].interrupts = 0
              /\ thr[t].chan_closed = 0
              /\ rem[t].st = "none"
              /\ (sd.pc = "join" /\ sd.procs[sd.i] = t) => ENABLED ShutdownJoin)
    /\ [][\A t \in Threads :
            /\ (~FailedToConnect(t) /\ FailedToConnect(t)') =>
                 /\ thr'[t].attempts = thr[t].attempts + 1
                 /\ thr'[t].retries = thr[t].retries
                 /\ process' = "alive"
            /\ FailedToConnect(t) => (thr'[t] = thr[t] /\ process' = process)]_vars

\* After two SSH errors the third attempt failed otherwise; the runner ended,
\* and a shutdown() called later has put its token and returned.
C19_Witness ==
    \E t \in Threads :
        /\ FailedToConnect(t)
        /\ thr[t].retries = 2
        /\ thr[t].attempts = 3
        /\ inq[t] # <<>>
        /\ sd.pc = "returned"
        /\ process = "alive"


\* C20: a runner executes its command at most once, and exactly once by the
\* time it has left the statement after a successful connection attempt; with
\* the process alive, a runner that is connecting can connect and one that has
\* connected can start its command whatever is on its input queue; and no step
\* removes a token from an input queue.
C20_LaunchDespiteToken ==
    /\ [](\A t \in Threads :
            /\ thr[t].execs <= 1
            /\ thr[t].connected => (thr[t].execs = 1 <=> thr[t].pc # "exec")
            /\ (process = "alive" /\ thr[t].pc = "connect") => ENABLED Connect(t, "ok")
            /\ (process = "alive" /\ thr[t].pc = "exec") => ENABLED Exec(t)
            /\ thr[t].pc \in {"connect", "exec"} =>
                 (~thr[t].communicated /\ thr[t].interrupts = 0))
    /\ [][\A t \in Threads :
            /\ Len(inq'[t]) >= Len(inq[t])
            /\ SubSeq(inq'[t], 1, Len(inq[t])) = inq[t]]_vars

\* The token was on the input queue before the connection was established,
\* and the runner has started its command all the same.
C20_Witness ==
    \E t \in Threads :
        /\ thr[t].early_token
        /\ inq[t] # <<>>
        /\ thr[t].execs = 1
        /\ thr[t].pc = "idle"
        /\ rem[t].st = "running"

====
